---- MODULE Spec2Model ----
(***************************************************************************)
(* serial2-mio: a non-blocking serial port for mio, built on serial2.      *)
(*                                                                         *)
(* The facade (lib.rs, SerialPort) forwards every call to sys::Inner, of   *)
(* which there is one per platform: sys/unix.rs keeps a serial2 port whose *)
(* descriptor was put in non-blocking mode, sys/windows.rs keeps the       *)
(* handle as a mio NamedPipe and rebuilds a serial2 port over it for each  *)
(* device-control call.                                                    *)
(*                                                                         *)
(* Three specifications share the module:                                  *)
(*   Spec     handle ownership: construction, raw-handle transfer,         *)
(*            control calls, destruction, over several handle slots;       *)
(*   SpecIO   the data path of one constructed port: peer, device, two     *)
(*            application threads, the readiness registry;                 *)
(*   SpecCfg  set_configuration / get_configuration of one port.           *)
(* The operating system, serial2 and mio are outside the repository; they  *)
(* are modelled where the repository's code calls them, by what the call   *)
(* does to the descriptor, the kernel queues and the registry.             *)
(***************************************************************************)
EXTENDS Integers, Sequences, FiniteSets, TLC

VARIABLES
    backend,    \* "unix" | "windows": the sys::Inner compiled in (sys/mod.rs)
    \* ---- handle ownership (Spec)
    hOpen,      \* [Handles -> BOOLEAN] the OS handle is open
    hFlags,     \* [Handles -> Int] descriptor status flags (fcntl F_GETFL)
    life,       \* [Handles -> "free"|"live"|"dropped"|"callerClosed"]
    closes,     \* [Handles -> Nat] closes issued by this layer's wrappers
    blk,        \* [Handles -> BOOLEAN] a serial2::SerialPort owns the handle
    port,       \* [Handles -> BOOLEAN] a serial2_mio::SerialPort owns it
    rawOwned,   \* [Handles -> BOOLEAN] the caller owns the raw handle
    conv,       \* outcome of the latest unix Inner::from_blocking
    ctl,        \* the latest control call / raw-handle borrow
    \* ---- data path of one port (SpecIO)
    ctor,       \* how the port was constructed: "open"|"from_blocking"|"from_raw"
    fdFlags,    \* status flags of the port's descriptor
    sent,       \* bytes the peer has sent so far, numbered 1..sent
    rx,         \* kernel input queue of the device
    rdState,    \* NamedPipe read state: "None" | "Pending" | "Ok"
    rdBuf,      \* NamedPipe read buffer (bytes an overlapped read pulled in)
    rdDone,     \* an overlapped read completed, completion not yet polled
    tx,         \* bytes accepted by write and not yet transmitted
    wrState,    \* NamedPipe write state: "None" | "Pending"
    reg,        \* what the registry holds for the port: NoReg or a record
    app,        \* what the application asked the port to register
    pendingR,   \* descriptor backend: a read-readiness event is queued
    announced,  \* highest byte covered by a delivered notification
    regAt,      \* value of sent when the port was last (re)registered
    pc,         \* [Threads -> "idle"|"read"|"write"|"flush"] blocked calls
    obs,        \* [Threads -> Seq] bytes each thread's reads returned
    discarded,  \* bytes dropped by discard_input_buffer / discard_buffers
    fresh,      \* discard_input_buffer succeeded, no peer data or read since
    last,       \* the latest completed data-path call
    \* ---- configuration (SpecCfg)
    devCfg,     \* settings the device currently has
    lastSet,    \* settings of the latest successful set_configuration
    getRes      \* result of the latest get_configuration

ownVars == <<hOpen, hFlags, life, closes, blk, port, rawOwned, conv, ctl>>
ioVars == <<ctor, fdFlags, sent, rx, rdState, rdBuf, rdDone, tx, wrState, reg, app,
            pendingR, announced, regAt, pc, obs, discarded, fresh, last>>
cfgVars == <<devCfg, lastSet, getRes>>
vars == <<backend, ownVars, ioVars, cfgVars>>

\* ------------------------------------------------------------------ bounds
MaxHandles == 2
MaxBytes == 2
MaxBuf == 2
MaxBufs == 2
TxCap == 2

Backends == {"unix", "windows"}
Handles == 1..MaxHandles
Threads == {"t1", "t2"}

\* ------------------------------------------------------- descriptor flags
\* libc::O_NONBLOCK (Linux: 0o4000)
O_NONBLOCK == 2048
\* Single-bit masks of the status word: O_RDWR, O_NOCTTY, O_APPEND, O_NONBLOCK
FlagBits == {2, 256, 1024, O_NONBLOCK}
\* Flags a descriptor can have before this crate touches it:
\* O_RDWR, O_RDWR|O_NOCTTY, O_RDWR|O_NONBLOCK
PriorFlags == {2, 258, 2 + O_NONBLOCK}
\* ... and the ones the data-path specification starts from
IoPriorFlags == {2, 2 + O_NONBLOCK}

BitSet(f, b) == (f \div b) % 2 = 1
\* f | b for a single-bit mask b
BitOr(f, b) == IF BitSet(f, b) THEN f ELSE f + b

\* libc::fcntl(fd, F_GETFL): the flags, or -1
FcntlGetfl(flags, ok) == IF ok THEN flags ELSE -1
\* libc::fcntl(fd, F_SETFL, v): 0, or -1
FcntlSetfl(ok) == IF ok THEN 0 ELSE -1

check_i32(ret) ==
    IF ret = -1 THEN [ok |-> FALSE, val |-> ret] ELSE [ok |-> TRUE, val |-> ret]

\* A plausible slip: F_SETFL with O_NONBLOCK alone, dropping the read flags.
FromBlockingUnixClobber(flags, getOk, setOk) ==
    LET g == check_i32(FcntlGetfl(flags, getOk)) IN
    IF ~g.ok THEN [ok |-> FALSE, setIssued |-> FALSE, flags |-> flags]
    ELSE LET s == check_i32(FcntlSetfl(setOk)) IN
         IF ~s.ok THEN [ok |-> FALSE, setIssued |-> TRUE, flags |-> flags]
         ELSE [ok |-> TRUE, setIssued |-> TRUE, flags |-> O_NONBLOCK]

\* unix Inner::from_blocking: F_GETFL, then F_SETFL with flags | O_NONBLOCK;
\* `?` returns at the first failing call.
FromBlockingUnix(flags, getOk, setOk) ==
    LET g == check_i32(FcntlGetfl(flags, getOk)) IN
    IF ~g.ok THEN [ok |-> FALSE, setIssued |-> FALSE, flags |-> flags]
    ELSE LET s == check_i32(FcntlSetfl(setOk)) IN
         IF ~s.ok THEN [ok |-> FALSE, setIssued |-> TRUE, flags |-> flags]
         ELSE [ok |-> TRUE, setIssued |-> TRUE,
               flags |-> BitOr(g.val, O_NONBLOCK)]

\* unix Inner::from_raw_fd: wraps the descriptor as it is.
FromRawFdFlags(flags) == flags

\* windows Inner::from_blocking hands NamedPipe the handle that
\* into_raw_handle() took out of the serial2 port: does the serial2 port
\* still own it afterwards?
BlockingKeepsHandle == FALSE

\* windows Inner::as_serial_port: does dropping the transient serial2 port
\* close the handle? It is wrapped in ManuallyDrop.
ViewDropClosesOwned == TRUE

ViewDropCloses == FALSE

\* ------------------------------------------------------- handle ownership
NoConv == [h |-> 0, prior |-> 0, after |-> 0, getOk |-> TRUE, setOk |-> TRUE,
           setIssued |-> FALSE, ok |-> TRUE, owns |-> FALSE]
NoCtl == [op |-> "none", h |-> 0]

B2N(b) == IF b THEN 1 ELSE 0
Owners(h) == B2N(blk[h]) + B2N(port[h]) + B2N(rawOwned[h])
SlotFree(h) == life[h] # "live"
Bump(n) == IF n < 2 THEN n + 1 ELSE n

InitOwn ==
    /\ hOpen = [h \in Handles |-> FALSE]
    /\ hFlags = [h \in Handles |-> 0]
    /\ life = [h \in Handles |-> "free"]
    /\ closes = [h \in Handles |-> 0]
    /\ blk = [h \in Handles |-> FALSE]
    /\ port = [h \in Handles |-> FALSE]
    /\ rawOwned = [h \in Handles |-> FALSE]
    /\ conv = NoConv
    /\ ctl = NoCtl

\* close(2) / CloseHandle issued by a wrapper of this layer when it is dropped
CloseBy(h, base) ==
    /\ hOpen' = [hOpen EXCEPT ![h] = FALSE]
    /\ hFlags' = [hFlags EXCEPT ![h] = 0]
    /\ closes' = [closes EXCEPT ![h] = Bump(base)]
    /\ life' = [life EXCEPT ![h] = "dropped"]

\* serial2::SerialPort::open, called by the application: a blocking port
OpenSerial2(h) ==
    /\ SlotFree(h)
    /\ \E f \in PriorFlags : hFlags' = [hFlags EXCEPT ![h] = f]
    /\ hOpen' = [hOpen EXCEPT ![h] = TRUE]
    /\ life' = [life EXCEPT ![h] = "live"]
    /\ closes' = [closes EXCEPT ![h] = 0]
    /\ blk' = [blk EXCEPT ![h] = TRUE]
    /\ UNCHANGED <<port, rawOwned, conv, ctl>>
    /\ UNCHANGED <<backend, ioVars, cfgVars>>

\* Which fcntl call, if any, reports failure
SyscallFailures == {"none", "get", "set"}

\* sys::Inner::from_blocking on a serial2 port that owns open handle h with
\* flags `prior`; `base` is the number of closes the handle has seen.
FromBlocking(h, prior, base, fail) ==
    IF backend = "unix"
    THEN LET getOk == fail # "get"
             setOk == fail # "set"
             r == FromBlockingUnix(prior, getOk, setOk) IN
         /\ IF r.ok
            THEN /\ hOpen' = [hOpen EXCEPT ![h] = TRUE]
                 /\ hFlags' = [hFlags EXCEPT ![h] = r.flags]
                 /\ life' = [life EXCEPT ![h] = "live"]
                 /\ closes' = [closes EXCEPT ![h] = base]
            ELSE CloseBy(h, base)   \* `inner` is dropped on the error path
         /\ blk' = [blk EXCEPT ![h] = FALSE]
         /\ port' = [port EXCEPT ![h] = r.ok]
         /\ conv' = [h |-> h, prior |-> prior, after |-> hFlags'[h],
                     getOk |-> getOk, setOk |-> setOk,
                     setIssued |-> r.setIssued, ok |-> r.ok,
                     owns |-> port'[h] /\ ~blk'[h] /\ hOpen'[h]]
    ELSE /\ fail = "none"
         /\ hOpen' = [hOpen EXCEPT ![h] = TRUE]
         /\ hFlags' = [hFlags EXCEPT ![h] = prior]
         /\ life' = [life EXCEPT ![h] = "live"]
         /\ closes' = [closes EXCEPT ![h] = base]
         /\ blk' = [blk EXCEPT ![h] = BlockingKeepsHandle]
         /\ port' = [port EXCEPT ![h] = TRUE]
         /\ UNCHANGED conv

\* SerialPort::open: serial2 open, then try_from
Open(h) ==
    /\ SlotFree(h)
    /\ \E f \in PriorFlags, fail \in SyscallFailures :
          FromBlocking(h, f, 0, fail)
    /\ UNCHANGED <<rawOwned, ctl>>
    /\ UNCHANGED <<backend, ioVars, cfgVars>>

\* impl TryFrom<serial2::SerialPort> for SerialPort
TryFrom(h) ==
    /\ blk[h]
    /\ \E fail \in SyscallFailures :
          FromBlocking(h, hFlags[h], closes[h], fail)
    /\ UNCHANGED <<rawOwned, ctl>>
    /\ UNCHANGED <<backend, ioVars, cfgVars>>

\* The application comes to own a raw handle this layer never wrapped.
CallerAcquire(h) ==
    /\ SlotFree(h)
    /\ \E f \in PriorFlags : hFlags' = [hFlags EXCEPT ![h] = f]
    /\ hOpen' = [hOpen EXCEPT ![h] = TRUE]
    /\ life' = [life EXCEPT ![h] = "live"]
    /\ closes' = [closes EXCEPT ![h] = 0]
    /\ rawOwned' = [rawOwned EXCEPT ![h] = TRUE]
    /\ UNCHANGED <<blk, port, conv, ctl>>
    /\ UNCHANGED <<backend, ioVars, cfgVars>>

\* The application closes a raw handle it owns.
CallerClose(h) ==
    /\ rawOwned[h]
    /\ hOpen' = [hOpen EXCEPT ![h] = FALSE]
    /\ hFlags' = [hFlags EXCEPT ![h] = 0]
    /\ life' = [life EXCEPT ![h] = "callerClosed"]
    /\ rawOwned' = [rawOwned EXCEPT ![h] = FALSE]
    /\ UNCHANGED <<closes, blk, port, conv, ctl>>
    /\ UNCHANGED <<backend, ioVars, cfgVars>>

\* FromRawFd / FromRawHandle for SerialPort: ownership taken from the caller
FromRaw(h) ==
    /\ rawOwned[h]
    /\ rawOwned' = [rawOwned EXCEPT ![h] = FALSE]
    /\ port' = [port EXCEPT ![h] = TRUE]
    /\ hFlags' = [hFlags EXCEPT ![h] =
                    IF backend = "unix" THEN FromRawFdFlags(@) ELSE @]
    /\ UNCHANGED <<hOpen, life, closes, blk, conv, ctl>>
    /\ UNCHANGED <<backend, ioVars, cfgVars>>

\* IntoRawFd for SerialPort (unix only): ownership handed to the caller
IntoRaw(h) ==
    /\ backend = "unix"
    /\ port[h]
    /\ port' = [port EXCEPT ![h] = FALSE]
    /\ rawOwned' = [rawOwned EXCEPT ![h] = TRUE]
    /\ UNCHANGED <<hOpen, hFlags, life, closes, blk, conv, ctl>>
    /\ UNCHANGED <<backend, ioVars, cfgVars>>

\* AsRawFd / AsRawHandle for SerialPort: a borrow
AsRaw(h) ==
    /\ port[h]
    /\ ctl' = [op |-> "as_raw", h |-> h]
    /\ UNCHANGED <<hOpen, hFlags, life, closes, blk, port, rawOwned, conv>>
    /\ UNCHANGED <<backend, ioVars, cfgVars>>

\* A device-control call (get/set_configuration, discard_*, set_rts/dtr,
\* read_cts/dsr/ri/cd). unix: through self.inner. windows: through
\* as_serial_port(), a serial2 port over the same handle that is dropped
\* when the call returns.
Control(h) ==
    /\ port[h]
    /\ ctl' = [op |-> "control", h |-> h]
    /\ IF backend = "windows" /\ ViewDropCloses
       THEN /\ hOpen' = [hOpen EXCEPT ![h] = FALSE]
            /\ closes' = [closes EXCEPT ![h] = Bump(@)]
       ELSE UNCHANGED <<hOpen, closes>>
    /\ UNCHANGED <<hFlags, life, blk, port, rawOwned, conv>>
    /\ UNCHANGED <<backend, ioVars, cfgVars>>

\* The SerialPort is dropped: its Inner closes the handle.
DropPort(h) ==
    /\ port[h]
    /\ port' = [port EXCEPT ![h] = FALSE]
    /\ CloseBy(h, closes[h])
    /\ UNCHANGED <<blk, rawOwned, conv, ctl>>
    /\ UNCHANGED <<backend, ioVars, cfgVars>>

\* A serial2::SerialPort the application still holds is dropped.
DropBlocking(h) ==
    /\ blk[h]
    /\ blk' = [blk EXCEPT ![h] = FALSE]
    /\ CloseBy(h, closes[h])
    /\ UNCHANGED <<port, rawOwned, conv, ctl>>
    /\ UNCHANGED <<backend, ioVars, cfgVars>>

\* ------------------------------------------------------------- data path
Tokens == {"tA", "tB"}
Interests == {{"R"}, {"W"}, {"R", "W"}}
Ctors == {"open", "from_blocking", "from_raw"}
NoReg == [token |-> "none", interest |-> {}]
\* A thread's blocked call: the operation, the number of bytes it may
\* transfer, and of a vectored call the number of buffers and the first one's
\* length.
Idle == [st |-> "idle", op |-> "none", len |-> 0, nbufs |-> 0, first |-> 0]
\* The latest completed call. Of a vectored call: nbufs is the number of
\* buffers given, extra the size of the region handed to the descriptor or
\* pipe beyond the first buffer, over the bytes transferred beyond the first
\* buffer's length.
NoLast == [op |-> "none", kind |-> "none", nbufs |-> 0, extra |-> 0,
           over |-> 0, early |-> FALSE, afterDiscard |-> FALSE,
           blocked |-> FALSE, untx |-> 0, val |-> FALSE]

Min(a, b) == IF a < b THEN a ELSE b
Max(a, b) == IF a > b THEN a ELSE b
Range(q) == {q[i] : i \in 1..Len(q)}
Take(q, n) == SubSeq(q, 1, n)
Drop(q, n) == SubSeq(q, n + 1, Len(q))
RECURSIVE SeqSum(_)
SeqSum(q) == IF q = <<>> THEN 0 ELSE q[1] + SeqSum(Tail(q))
\* Lists of buffers (each given by its length) handed to a vectored call
BufLists == UNION {[1..k -> 1..MaxBuf] : k \in 0..MaxBufs}
First(bufs) == IF bufs = <<>> THEN 0 ELSE bufs[1]
VecOps == {"read_vectored", "write_vectored"}
\* Of a vectored call that handed `len` bytes of buffer on and moved n bytes
Extra(op, len, first) == IF op \in VecOps /\ len > first THEN len - first ELSE 0
Over(op, n, first) == IF op \in VecOps /\ n > first THEN n - first ELSE 0

\* The flags of the descriptor once the constructor has returned Ok
ConstructedFlags(c, prior) ==
    IF c = "from_raw" THEN FromRawFdFlags(prior)
    ELSE FromBlockingUnix(prior, TRUE, TRUE).flags

NonBlocking == BitSet(fdFlags, O_NONBLOCK)

\* A read that leaves what it returned in the queue.
RxAfterReadPeek(q, n) == q

\* read(2) / NamedPipe::read take the bytes they return out of the queue.
RxAfterRead(q, n) == Drop(q, n)

\* windows read_vectored/write_vectored with every buffer's length
WinVecFirstAll(bufs) ==
    IF bufs = <<>> THEN [ok |-> FALSE, len |-> 0]
    ELSE [ok |-> TRUE, len |-> SeqSum(bufs)]

\* windows read_vectored/write_vectored going on with an empty buffer
WinVecFirstLenient(bufs) ==
    IF bufs = <<>> THEN [ok |-> TRUE, len |-> 0]
    ELSE [ok |-> TRUE, len |-> bufs[1]]

\* windows read_vectored/write_vectored: buf.get(0).ok_or(InvalidInput)?
WinVecFirst(bufs) ==
    IF bufs = <<>> THEN [ok |-> FALSE, len |-> 0]
    ELSE [ok |-> TRUE, len |-> bufs[1]]

\* is_read_vectored / is_write_vectored
IsVectored == backend = "unix"

ForwardInterestWritable(i) == {"W"}

\* register/reregister pass the caller's token and interests on as given.
ForwardInterest(i) == i
ForwardToken(tok) == tok

Registered == reg.token # "none"
\* The application has the port registered for read interest.
AppReads == app.token # "none" /\ "R" \in app.interest

\* NamedPipe schedule_read: nothing to do unless the read state is None;
\* otherwise an overlapped read is issued, which completes at once when the
\* driver already holds bytes.
Sched(st, buf, q, done) ==
    IF st # "None" THEN [st |-> st, buf |-> buf, q |-> q, done |-> done]
    ELSE IF q # <<>>
         THEN [st |-> "Pending", buf |-> q, q |-> <<>>, done |-> TRUE]
         ELSE [st |-> "Pending", buf |-> <<>>, q |-> q, done |-> FALSE]

\* Some returned byte was written by the peer during the current read
\* registration and no delivered notification covers it.
Early(got) ==
    AppReads /\ \E b \in Range(got) : b > regAt /\ b > announced

ReadDone(t, op, len, nbufs, first, got, blocked) ==
    /\ obs' = [obs EXCEPT ![t] = @ \o got]
    /\ last' = [NoLast EXCEPT !.op = op, !.kind = "ok", !.nbufs = nbufs,
                              !.extra = Extra(op, len, first),
                              !.over = Over(op, Len(got), first),
                              !.early = Early(got),
                              !.afterDiscard = fresh /\ ~blocked,
                              !.blocked = blocked]
    /\ fresh' = FALSE

WouldBlock(op, len, bufs) ==
    last' = [NoLast EXCEPT !.op = op, !.kind = "wouldblock",
                           !.nbufs = Len(bufs),
                           !.extra = Extra(op, len, First(bufs)),
                           !.afterDiscard =
                               fresh /\ op \in {"read", "read_vectored"}]

\* unix Inner::read / read_vectored: serial2 issues read(2) / readv(2)
UnixRead(t, op, len, bufs) ==
    IF rx = <<>> /\ len > 0
    THEN IF NonBlocking
         THEN /\ WouldBlock(op, len, bufs)
              /\ fresh' = FALSE
              /\ UNCHANGED <<rx, pc, obs>>
         ELSE /\ pc' = [pc EXCEPT ![t] = [st |-> "read", op |-> op,
                                         len |-> len, nbufs |-> Len(bufs),
                                         first |-> First(bufs)]]
              /\ fresh' = FALSE
              /\ UNCHANGED <<rx, obs, last>>
    ELSE LET n == Min(len, Len(rx)) IN
         /\ rx' = RxAfterRead(rx, n)
         /\ ReadDone(t, op, len, Len(bufs), First(bufs), Take(rx, n), FALSE)
         /\ UNCHANGED pc

\* windows Inner::read / read_vectored: NamedPipe::read on `len` bytes
WinRead(t, op, len, bufs) ==
    IF ~Registered \/ rdState # "Ok"
    THEN /\ WouldBlock(op, len, bufs)
         /\ fresh' = FALSE
         /\ UNCHANGED <<rx, rdState, rdBuf, rdDone, obs>>
    ELSE LET n == Min(len, Len(rdBuf))
             rest == RxAfterRead(rdBuf, n)
             s == Sched("None", <<>>, rx, FALSE) IN
         /\ ReadDone(t, op, len, Len(bufs), First(bufs), Take(rdBuf, n),
                     FALSE)
         /\ IF rest # <<>>
            THEN /\ rdBuf' = rest
                 /\ UNCHANGED <<rx, rdState, rdDone>>
            ELSE /\ rdState' = s.st
                 /\ rdBuf' = s.buf
                 /\ rx' = s.q
                 /\ rdDone' = s.done

\* SerialPort::read
Read(t, len) ==
    /\ pc[t].st = "idle"
    /\ IF backend = "unix"
       THEN UnixRead(t, "read", len, <<>>)
            /\ UNCHANGED <<rdState, rdBuf, rdDone>>
       ELSE WinRead(t, "read", len, <<>>) /\ UNCHANGED pc
    /\ UNCHANGED <<ctor, fdFlags, sent, tx, wrState, reg, app, pendingR,
                   announced, regAt, discarded>>
    /\ UNCHANGED <<backend, ownVars, cfgVars>>

\* SerialPort::read_vectored
ReadVectored(t, bufs) ==
    /\ pc[t].st = "idle"
    /\ IF backend = "unix"
       THEN UnixRead(t, "read_vectored", SeqSum(bufs), bufs)
            /\ UNCHANGED <<rdState, rdBuf, rdDone>>
       ELSE LET f == WinVecFirst(bufs) IN
            IF ~f.ok
            THEN /\ last' = [NoLast EXCEPT !.op = "read_vectored",
                                           !.kind = "invalid"]
                 /\ UNCHANGED <<rx, rdState, rdBuf, rdDone, pc, obs, fresh>>
            ELSE WinRead(t, "read_vectored", f.len, bufs) /\ UNCHANGED pc
    /\ UNCHANGED <<ctor, fdFlags, sent, tx, wrState, reg, app, pendingR,
                   announced, regAt, discarded>>
    /\ UNCHANGED <<backend, ownVars, cfgVars>>

\* A read blocked on a descriptor without O_NONBLOCK returns once data is in.
ReadWake(t) ==
    /\ pc[t].st = "read"
    /\ rx # <<>>
    /\ LET n == Min(pc[t].len, Len(rx)) IN
       /\ rx' = RxAfterRead(rx, n)
       /\ ReadDone(t, pc[t].op, pc[t].len, pc[t].nbufs, pc[t].first,
                   Take(rx, n), TRUE)
    /\ pc' = [pc EXCEPT ![t] = Idle]
    /\ UNCHANGED <<ctor, fdFlags, sent, rdState, rdBuf, rdDone, tx, wrState,
                   reg, app, pendingR, announced, regAt, discarded>>
    /\ UNCHANGED <<backend, ownVars, cfgVars>>

WriteDone(op, len, nbufs, first, n, blocked) ==
    last' = [NoLast EXCEPT !.op = op, !.kind = "ok", !.nbufs = nbufs,
                           !.extra = Extra(op, len, first),
                           !.over = Over(op, n, first),
                           !.blocked = blocked]

\* unix Inner::write / write_vectored: serial2 issues write(2) / writev(2)
UnixWrite(t, op, len, bufs) ==
    IF tx >= TxCap /\ len > 0
    THEN IF NonBlocking
         THEN WouldBlock(op, len, bufs) /\ UNCHANGED <<tx, pc>>
         ELSE /\ pc' = [pc EXCEPT ![t] = [st |-> "write", op |-> op,
                                         len |-> len, nbufs |-> Len(bufs),
                                         first |-> First(bufs)]]
              /\ UNCHANGED <<tx, last>>
    ELSE LET n == Min(len, TxCap - tx) IN
         /\ tx' = tx + n
         /\ WriteDone(op, len, Len(bufs), First(bufs), n, FALSE)
         /\ UNCHANGED pc

\* windows Inner::write / write_vectored: NamedPipe::write takes the whole
\* buffer and starts an overlapped write, unless one is still in flight.
WinWrite(op, len, bufs) ==
    IF ~Registered \/ wrState # "None"
    THEN WouldBlock(op, len, bufs) /\ UNCHANGED <<tx, wrState>>
    ELSE /\ tx' = tx + len
         /\ wrState' = "Pending"
         /\ WriteDone(op, len, Len(bufs), First(bufs), len, FALSE)

\* SerialPort::write
Write(t, len) ==
    /\ pc[t].st = "idle"
    /\ IF backend = "unix"
       THEN UnixWrite(t, "write", len, <<>>) /\ UNCHANGED wrState
       ELSE WinWrite("write", len, <<>>) /\ UNCHANGED pc
    /\ UNCHANGED <<ctor, fdFlags, sent, rx, rdState, rdBuf, rdDone, reg, app,
                   pendingR, announced, regAt, obs, discarded, fresh>>
    /\ UNCHANGED <<backend, ownVars, cfgVars>>

\* SerialPort::write_vectored
WriteVectored(t, bufs) ==
    /\ pc[t].st = "idle"
    /\ IF backend = "unix"
       THEN UnixWrite(t, "write_vectored", SeqSum(bufs), bufs)
            /\ UNCHANGED wrState
       ELSE LET f == WinVecFirst(bufs) IN
            IF ~f.ok
            THEN /\ last' = [NoLast EXCEPT !.op = "write_vectored",
                                           !.kind = "invalid"]
                 /\ UNCHANGED <<tx, wrState, pc>>
            ELSE WinWrite("write_vectored", f.len, bufs) /\ UNCHANGED pc
    /\ UNCHANGED <<ctor, fdFlags, sent, rx, rdState, rdBuf, rdDone, reg, app,
                   pendingR, announced, regAt, obs, discarded, fresh>>
    /\ UNCHANGED <<backend, ownVars, cfgVars>>

\* A write blocked on a descriptor without O_NONBLOCK goes on once there is room.
WriteWake(t) ==
    /\ pc[t].st = "write"
    /\ tx < TxCap
    /\ LET n == Min(pc[t].len, TxCap - tx) IN
       /\ tx' = tx + n
       /\ WriteDone(pc[t].op, pc[t].len, pc[t].nbufs, pc[t].first, n, TRUE)
    /\ pc' = [pc EXCEPT ![t] = Idle]
    /\ UNCHANGED <<ctor, fdFlags, sent, rx, rdState, rdBuf, rdDone, wrState,
                   reg, app, pendingR, announced, regAt, obs, discarded, fresh>>
    /\ UNCHANGED <<backend, ownVars, cfgVars>>

FlushOk == last' = [NoLast EXCEPT !.op = "flush", !.kind = "ok", !.untx = tx]

\* SerialPort::flush. unix: serial2 calls tcdrain, which waits for the
\* output queue to empty. windows: NamedPipe::flush returns Ok(()) at once.
Flush(t) ==
    /\ pc[t].st = "idle"
    /\ IF backend = "unix" /\ tx > 0
       THEN /\ pc' = [pc EXCEPT ![t] = [Idle EXCEPT !.st = "flush"]]
            /\ UNCHANGED last
       ELSE FlushOk /\ UNCHANGED pc
    /\ UNCHANGED <<ctor, fdFlags, sent, rx, rdState, rdBuf, rdDone, tx,
                   wrState, reg, app, pendingR, announced, regAt, obs,
                   discarded, fresh>>
    /\ UNCHANGED <<backend, ownVars, cfgVars>>

\* tcdrain returns.
FlushWake(t) ==
    /\ pc[t].st = "flush"
    /\ tx = 0
    /\ FlushOk
    /\ pc' = [pc EXCEPT ![t] = Idle]
    /\ UNCHANGED <<ctor, fdFlags, sent, rx, rdState, rdBuf, rdDone, tx,
                   wrState, reg, app, pendingR, announced, regAt, obs,
                   discarded, fresh>>
    /\ UNCHANGED <<backend, ownVars, cfgVars>>

\* SerialPort::is_read_vectored / is_write_vectored
IsVectoredQuery(op) ==
    /\ last' = [NoLast EXCEPT !.op = op, !.kind = "ok", !.val = IsVectored]
    /\ UNCHANGED <<ctor, fdFlags, sent, rx, rdState, rdBuf, rdDone, tx,
                   wrState, reg, app, pendingR, announced, regAt, pc, obs,
                   discarded, fresh>>
    /\ UNCHANGED <<backend, ownVars, cfgVars>>

\* SerialPort::discard_input_buffer / discard_output_buffer / discard_buffers:
\* tcflush, or PurgeComm through the transient serial2 port. They empty the
\* kernel queues of the device; the NamedPipe's own buffer is not theirs.
Discard(which, ok) ==
    /\ IF ok /\ which \in {"discard_input_buffer", "discard_buffers"}
       THEN /\ rx' = <<>>
            /\ discarded' = discarded \cup Range(rx)
       ELSE UNCHANGED <<rx, discarded>>
    /\ IF ok /\ which \in {"discard_output_buffer", "discard_buffers"}
       THEN tx' = 0
       ELSE UNCHANGED tx
    /\ fresh' = IF ok /\ which = "discard_input_buffer" THEN TRUE ELSE fresh
    /\ UNCHANGED <<ctor, fdFlags, sent, rdState, rdBuf, rdDone, wrState, reg,
                   app, pendingR, announced, regAt, pc, obs, last>>
    /\ UNCHANGED <<backend, ownVars, cfgVars>>

\* The peer sends n more bytes. unix: they join the kernel input queue and,
\* if the descriptor is registered for read interest, the registry queues a
\* readiness event. windows: an overlapped read in flight takes them and
\* completes; otherwise they wait in the driver's queue.
PeerWrite(n) ==
    /\ sent + n <= MaxBytes
    /\ sent' = sent + n
    /\ fresh' = FALSE
    /\ LET new == [i \in 1..n |-> sent + i] IN
       IF backend = "windows" /\ rdState = "Pending" /\ ~rdDone
       THEN /\ rdBuf' = new
            /\ rdDone' = TRUE
            /\ UNCHANGED <<rx, pendingR>>
       ELSE /\ rx' = rx \o new
            /\ pendingR' = IF backend = "unix" /\ Registered
                              /\ "R" \in reg.interest
                           THEN TRUE ELSE pendingR
            /\ UNCHANGED <<rdBuf, rdDone>>
    /\ UNCHANGED <<ctor, fdFlags, rdState, tx, wrState, reg, app, announced,
                   regAt, pc, obs, discarded, last>>
    /\ UNCHANGED <<backend, ownVars, cfgVars>>

\* The device puts one byte on the wire.
Transmit ==
    /\ tx > 0
    /\ tx' = tx - 1
    /\ UNCHANGED <<ctor, fdFlags, sent, rx, rdState, rdBuf, rdDone, wrState,
                   reg, app, pendingR, announced, regAt, pc, obs, discarded,
                   fresh, last>>
    /\ UNCHANGED <<backend, ownVars, cfgVars>>

\* What Inner::register / reregister leave in the registry. unix: SourceFd
\* adds the descriptor to the poller, which reports a descriptor that is
\* readable already. windows: NamedPipe keeps the token and schedules a read.
Arm(tok, interest) ==
    /\ app' = [token |-> tok, interest |-> interest]
    /\ reg' = [token |-> ForwardToken(tok),
               interest |-> ForwardInterest(interest)]
    /\ regAt' = sent
    /\ IF backend = "unix"
       THEN /\ pendingR' = ("R" \in reg'.interest /\ rx # <<>>)
            /\ UNCHANGED <<rx, rdState, rdBuf, rdDone>>
       ELSE LET s == Sched(rdState, rdBuf, rx, rdDone) IN
            /\ rdState' = s.st
            /\ rdBuf' = s.buf
            /\ rx' = s.q
            /\ rdDone' = s.done
            /\ UNCHANGED pendingR
    /\ UNCHANGED <<ctor, fdFlags, sent, tx, wrState, announced, pc, obs,
                   discarded, fresh, last>>
    /\ UNCHANGED <<backend, ownVars, cfgVars>>

\* impl mio::event::Source for SerialPort: register
Register(tok, interest) == ~Registered /\ Arm(tok, interest)

\* impl mio::event::Source for SerialPort: reregister
Reregister(tok, interest) == Registered /\ Arm(tok, interest)

\* impl mio::event::Source for SerialPort: deregister
Deregister ==
    /\ Registered
    /\ reg' = NoReg
    /\ app' = NoReg
    /\ pendingR' = FALSE
    /\ UNCHANGED <<ctor, fdFlags, sent, rx, rdState, rdBuf, rdDone, tx,
                   wrState, announced, regAt, pc, obs, discarded, fresh, last>>
    /\ UNCHANGED <<backend, ownVars, cfgVars>>

Last(q) == q[Len(q)]

\* The application polls the registry. unix: a queued event is delivered if
\* the descriptor is still readable. windows: completions are processed: a
\* finished overlapped read makes its bytes readable and, if the pipe has a
\* token, yields a readable event; a finished overlapped write frees the
\* write slot.
Poll ==
    /\ IF backend = "unix"
       THEN /\ Registered /\ pendingR
            /\ pendingR' = FALSE
            /\ announced' = IF rx # <<>> /\ reg.token = app.token
                            THEN Max(announced, Last(rx)) ELSE announced
            /\ UNCHANGED <<rdState, rdDone, wrState>>
       ELSE /\ rdDone \/ (wrState = "Pending" /\ tx = 0)
            /\ rdDone' = FALSE
            /\ rdState' = IF rdDone THEN "Ok" ELSE rdState
            /\ announced' = IF rdDone /\ Registered /\ reg.token = app.token
                            THEN Max(announced, Last(rdBuf)) ELSE announced
            /\ wrState' = IF wrState = "Pending" /\ tx = 0
                          THEN "None" ELSE wrState
            /\ UNCHANGED pendingR
    /\ UNCHANGED <<ctor, fdFlags, sent, rx, rdBuf, tx, reg, app, regAt, pc,
                   obs, discarded, fresh, last>>
    /\ UNCHANGED <<backend, ownVars, cfgVars>>

InitIOIdle ==
    /\ ctor = "open"
    /\ fdFlags = 0
    /\ sent = 0
    /\ rx = <<>>
    /\ rdState = "None"
    /\ rdBuf = <<>>
    /\ rdDone = FALSE
    /\ tx = 0
    /\ wrState = "None"
    /\ reg = NoReg
    /\ app = NoReg
    /\ pendingR = FALSE
    /\ announced = 0
    /\ regAt = 0
    /\ pc = [t \in Threads |-> Idle]
    /\ obs = [t \in Threads |-> <<>>]
    /\ discarded = {}
    /\ fresh = FALSE
    /\ last = NoLast

\* ---------------------------------------------------------- configuration
BaudRates == {9600, 115200}
CharSizes == {5, 6, 7, 8}
Parities == {"None", "Odd", "Even"}
StopBitsSet == {1, 2}
FlowControls == {"None", "XonXoff", "RtsCts"}
SettingsSet == [baud : BaudRates, char_size : CharSizes, parity : Parities,
                stop_bits : StopBitsSet, flow_control : FlowControls]
DefaultSettings == [baud |-> 9600, char_size |-> 8, parity |-> "None",
                    stop_bits |-> 1, flow_control |-> "None"]
NoSettings == [baud |-> 0, char_size |-> 0, parity |-> "none",
               stop_bits |-> 0, flow_control |-> "none"]

NoGet == [op |-> "none", val |-> NoSettings]
\* Settings another holder of the device may put in place
ElsewhereSettings ==
    {s \in SettingsSet : s.baud = 9600 /\ s.char_size = 8 /\ s.stop_bits = 1}

InitCfgIdle ==
    /\ devCfg = DefaultSettings
    /\ lastSet = NoSettings
    /\ getRes = NoGet

\* A get_configuration that answers from a freshly built wrapper's defaults.
GetConfigurationCached(dev) == DefaultSettings

\* Inner::get_configuration: what serial2 reads from the device behind the
\* handle; on windows through as_serial_port(), which holds the handle only.
GetConfigurationValue(dev) == dev

\* SerialPort::set_configuration
SetConfiguration(s, ok) ==
    /\ devCfg' = IF ok THEN s ELSE devCfg
    /\ lastSet' = IF ok THEN s ELSE NoSettings
    /\ getRes' = NoGet
    /\ UNCHANGED <<backend, ownVars, ioVars>>

\* SerialPort::get_configuration
GetConfiguration(ok) ==
    /\ getRes' = IF ok THEN [op |-> "ok", val |-> GetConfigurationValue(devCfg)]
                  ELSE [op |-> "error", val |-> NoSettings]
    /\ UNCHANGED <<backend, ownVars, ioVars, devCfg, lastSet>>

\* The device is reconfigured by someone else.
ConfigChangedElsewhere(s) ==
    /\ devCfg' = s
    /\ lastSet' = NoSettings
    /\ getRes' = NoGet
    /\ UNCHANGED <<backend, ownVars, ioVars>>

\* ----------------------------------------------------------- specifications
Init ==
    /\ backend \in Backends
    /\ InitOwn
    /\ InitIOIdle
    /\ InitCfgIdle

Next ==
    \/ \E h \in Handles : OpenSerial2(h)
    \/ \E h \in Handles : Open(h)
    \/ \E h \in Handles : TryFrom(h)
    \/ \E h \in Handles : CallerAcquire(h)
    \/ \E h \in Handles : CallerClose(h)
    \/ \E h \in Handles : FromRaw(h)
    \/ \E h \in Handles : IntoRaw(h)
    \/ \E h \in Handles : AsRaw(h)
    \/ \E h \in Handles : Control(h)
    \/ \E h \in Handles : DropPort(h)
    \/ \E h \in Handles : DropBlocking(h)

Spec == Init /\ [][Next]_vars

\* The port of the data-path specification has just been constructed.
InitIO ==
    /\ backend \in Backends
    /\ InitOwn
    /\ InitCfgIdle
    /\ ctor \in Ctors
    /\ IF backend = "unix"
       THEN \E f \in IoPriorFlags : fdFlags = ConstructedFlags(ctor, f)
       ELSE fdFlags = 0
    /\ sent = 0
    /\ rx = <<>>
    /\ rdState = "None"
    /\ rdBuf = <<>>
    /\ rdDone = FALSE
    /\ tx = 0
    /\ wrState = "None"
    /\ reg = NoReg
    /\ app = NoReg
    /\ pendingR = FALSE
    /\ announced = 0
    /\ regAt = 0
    /\ pc = [t \in Threads |-> Idle]
    /\ obs = [t \in Threads |-> <<>>]
    /\ discarded = {}
    /\ fresh = FALSE
    /\ last = NoLast

\* The receive path: peer, registry, reads, discards.
NextIO ==
    \/ \E t \in Threads, len \in 1..MaxBuf : Read(t, len)
    \/ \E t \in Threads : ReadWake(t)
    \/ \E which \in {"discard_input_buffer", "discard_output_buffer",
                     "discard_buffers"}, ok \in BOOLEAN : Discard(which, ok)
    \/ \E n \in 1..MaxBytes : PeerWrite(n)
    \/ \E tok \in Tokens, i \in Interests : Register(tok, i)
    \/ \E tok \in Tokens, i \in Interests : Reregister(tok, i)
    \/ Deregister
    \/ Poll

SpecIO == InitIO /\ [][NextIO]_vars

\* The transmit path: writes, the device, flush.
NextTx ==
    \/ \E t \in Threads, len \in 1..MaxBuf : Write(t, len)
    \/ \E t \in Threads : WriteWake(t)
    \/ \E t \in Threads : Flush(t)
    \/ \E t \in Threads : FlushWake(t)
    \/ \E ok \in BOOLEAN : Discard("discard_output_buffer", ok)
    \/ Transmit
    \/ \E tok \in Tokens, i \in Interests : Register(tok, i)
    \/ Deregister
    \/ Poll

SpecTx == InitIO /\ [][NextTx]_vars

\* The vectored calls and the capability queries, in both directions, made
\* by one thread.
NextVec ==
    \/ \E bufs \in BufLists : ReadVectored("t1", bufs)
    \/ \E bufs \in BufLists : WriteVectored("t1", bufs)
    \/ \E op \in {"is_read_vectored", "is_write_vectored"} :
          IsVectoredQuery(op)
    \/ \E n \in 1..MaxBytes : PeerWrite(n)
    \/ Transmit
    \/ \E tok \in Tokens : Register(tok, {"R", "W"})
    \/ Poll

\* ... on a port built by open
InitVec == InitIO /\ ctor = "open"

SpecVec == InitVec /\ [][NextVec]_vars

NextCfg ==
    \/ \E s \in SettingsSet, ok \in BOOLEAN : SetConfiguration(s, ok)
    \/ \E ok \in BOOLEAN : GetConfiguration(ok)
    \/ \E s \in ElsewhereSettings : ConfigChangedElsewhere(s)

SpecCfg == Init /\ [][NextCfg]_vars

\* ------------------------------------------------------------------ properties

\* C1: every handle has at most one owner at any instant; while it is owned it
\* is open and this layer has never closed it (a control call's transient
\* device view included); once its owning wrapper is destroyed it has been
\* closed exactly once; if the caller took it back and closed it, this layer
\* closed it zero times.
C1_SingleOwnerClosedOnce ==
    \A h \in Handles :
        /\ Owners(h) <= 1
        /\ life[h] = "free" => (Owners(h) = 0 /\ closes[h] = 0)
        /\ life[h] = "live" => (Owners(h) = 1 /\ hOpen[h] /\ closes[h] = 0)
        /\ life[h] = "dropped" => (Owners(h) = 0 /\ ~hOpen[h] /\ closes[h] = 1)
        /\ life[h] = "callerClosed" => (Owners(h) = 0 /\ closes[h] = 0)

\* A handle-backend port took a control call and was then destroyed: closed once.
C1_Witness ==
    /\ backend = "windows"
    /\ ctl.op = "control"
    /\ life[ctl.h] = "dropped"
    /\ closes[ctl.h] = 1

\* C2: on the descriptor backend no read or write ever blocks, whichever
\* constructor built the port.
C2_NeverBlocks ==
    backend = "unix" => \A t \in Threads : pc[t].st \notin {"read", "write"}

\* C3: on the handle backend a vectored call given more than one buffer hands
\* the pipe the first buffer only and returns no more than its length;
\* is_read_vectored / is_write_vectored answer false there, true on the
\* descriptor backend.
C3_VectoredFirstBufferOnly ==
    /\ (backend = "windows" /\ last.op \in VecOps /\ last.nbufs > 1)
           => (last.extra = 0 /\ last.over = 0)
    /\ last.op \in {"is_read_vectored", "is_write_vectored"}
           => (last.val <=> backend = "unix")

\* A two-buffer read on the handle backend returned while more bytes than the
\* first buffer holds were at hand.
C3_Witness ==
    /\ backend = "windows"
    /\ last.op = "read_vectored"
    /\ last.kind = "ok"
    /\ last.nbufs > 1
    /\ rdState = "Ok"
    /\ rdBuf # <<>>

\* C4 as stated: no read returns a byte the peer wrote during the current read
\* registration before a notification covering it has been delivered.
C4_NotifyBeforeRead == ~last.early

\* C4 amended: while the port is registered for read interest, every byte the
\* peer wrote during that registration and a read could return now is covered
\* by a delivered notification for the port's token, or one is queued for the
\* next poll.
C4_NotifyNoLaterThanReadable ==
    AppReads =>
        \A b \in (IF backend = "unix" THEN Range(rx)
                  ELSE IF rdState = "Ok" THEN Range(rdBuf) ELSE {}) :
            (b > regAt /\ b > announced) =>
                /\ reg.token = app.token
                /\ IF backend = "unix" THEN pendingR ELSE rdDone

\* Peer bytes are readable on a registered descriptor, the notification queued
\* and not yet delivered.
C4_Witness ==
    /\ backend = "unix"
    /\ AppReads
    /\ rx # <<>>
    /\ Last(rx) > regAt
    /\ Last(rx) > announced
    /\ pendingR

\* C5: a read that directly follows a successful discard_input_buffer, with no
\* peer data in between, returns would-block.
C5_DiscardThenReadWouldBlock ==
    (last.op = "read" /\ last.afterDiscard) => last.kind = "wouldblock"

\* C6: with two threads reading, every byte the peer sent is with exactly one
\* reader or still queued under the port: none lost, none returned twice.
C6_BytesConserved ==
    discarded = {} =>
        LET all == obs["t1"] \o obs["t2"] \o rdBuf \o rx IN
        /\ Len(all) = sent
        /\ Range(all) = 1..sent

\* Both threads have read, and together they hold everything the peer sent.
C6_Witness ==
    /\ discarded = {}
    /\ obs["t1"] # <<>>
    /\ obs["t2"] # <<>>
    /\ Len(obs["t1"]) + Len(obs["t2"]) = sent

C8_FlushDrains ==
    (last.op = "flush" /\ last.kind = "ok") => last.untx = 0

\* C9: on the handle backend a vectored call with no buffers returns
\* invalid-input and leaves the queues and the pipe's transfer state as they
\* were.
C9_EmptyVectoredInvalid ==
    [][(backend = "windows" /\ last' # last /\ last'.op \in VecOps
            /\ last'.nbufs = 0)
        => (/\ last'.kind = "invalid"
            /\ UNCHANGED <<rx, rdState, rdBuf, rdDone, tx, wrState, obs, pc,
                           reg, pendingR>>)]_vars

\* An empty read_vectored was refused while the pipe held readable bytes.
C9_Witness ==
    /\ backend = "windows"
    /\ last.op = "read_vectored"
    /\ last.nbufs = 0
    /\ last.kind = "invalid"
    /\ rdState = "Ok"
    /\ rdBuf # <<>>

\* C10: on the descriptor backend from_blocking fails exactly when F_GETFL or
\* F_SETFL reports failure, F_SETFL is not issued after a failed F_GETFL, and
\* on success the flags are the prior flags with O_NONBLOCK added and the new
\* wrapper owns the descriptor.
C10_FromBlockingFlags ==
    (backend = "unix" /\ conv.h # 0) =>
        /\ ~conv.ok <=> (~conv.getOk \/ (conv.setIssued /\ ~conv.setOk))
        /\ ~conv.getOk => ~conv.setIssued
        /\ conv.getOk => conv.setIssued
        /\ conv.ok =>
            /\ BitSet(conv.after, O_NONBLOCK)
            /\ \A b \in FlagBits \ {O_NONBLOCK} :
                   BitSet(conv.after, b) <=> BitSet(conv.prior, b)
            /\ conv.owns
        /\ ~conv.ok => ~conv.owns

\* A blocking descriptor was converted and the port still owns it.
C10_Witness ==
    /\ backend = "unix"
    /\ conv.h # 0
    /\ conv.ok
    /\ ~BitSet(conv.prior, O_NONBLOCK)
    /\ BitSet(conv.prior, 256)
    /\ port[conv.h]
    /\ hFlags[conv.h] = conv.after

====
